---- MODULE Spec2Model ----
(***************************************************************************)
(* Launch AI Generator: the session-scoped agent lifecycle manager         *)
(* (AgentManager of api/agent/agent_manager.py, given in                   *)
(* docs/architecture.md) together with its streaming callback handler,     *)
(* the page script and chat client (static/app.js, agent-client.js) and    *)
(* the React components and hooks (Quiz, previews, animation, shortcuts).  *)
(*                                                                         *)
(* Strings are sequences: a session id is a sequence of code points, a     *)
(* text is a sequence of one-character strings.  An AgentExecutor object   *)
(* is its identity, the ordinal of its construction.                       *)
(***************************************************************************)
EXTENDS Integers, Sequences, FiniteSets, TLC

\* ---------------------------------------------------------------- bounds
MaxCeiling == 2     \* config.max_active_agents ranges over 1..MaxCeiling
MaxAgents == 4      \* AgentExecutor objects constructed in one run
MaxTokens == 2      \* tokens the model generates in one ainvoke
MaxSteps == 2       \* intermediate steps of one raw agent result
MaxTimers == 2      \* reconnect timers pending at once
MaxStale == 1       \* replaced sockets whose close event is still to come
MaxThinking == 2    \* thinking indicators in the chat at once
MaxSent == 1        \* chat messages on their way to the server
MaxWaiting == 1     \* sendMessageWs calls polling for the connection
MaxVersions == 2    \* generations the server completes
MaxPending == 1     \* HTTP requests of the page in flight at once
MaxCalls == 2       \* execute_agent calls suspended in ainvoke at once
MaxPreviews == 2    \* preview requests in flight at once
MaxQuestions == 2   \* questions of a quiz
MaxOptions == 2     \* options of a question
MaxAttempts == 2    \* times a quiz is completed
MaxFrames == 3      \* animation frames the duration of an animation spans
MaxScheduled == 2   \* callbacks requested for one animation frame
MaxShortcuts == 2   \* shortcuts registered with useShortcuts

\* --------------------------------------------------------------- domains
None == <<>>        \* Python None / "" : "not session_id" holds for both

\* the session ids "a", "b", "c", as code points
SessionKeys == {<<97>>, <<98>>, <<99>>}

SafeChar == "a"
UnsafeChar == "<"
Chars == {SafeChar, UnsafeChar}

\* a token is a one-character text
Tokens == {<<c>> : c \in Chars}

\* str(e) of the exceptions an agent run can raise
ErrorMessages == {<<SafeChar>>, <<UnsafeChar>>}

\* the literal "Error: " of the soft-fail message
ErrorPrefix == <<"E">>

\* names of the tools of the registry
ToolNames == {"search", "calc", "fetch"}

\* ------------------------------------------------------------- sanitizer
RECURSIVE Strip(_)
Strip(text) ==
    IF text = <<>> THEN <<>>
    ELSE IF Head(text) = UnsafeChar THEN Strip(Tail(text))
    ELSE <<Head(text)>> \o Strip(Tail(text))

sanitize_output(text) == Strip(text)

\* ------------------------------------------------- str ordering, sorted()
RECURSIVE LexLess(_, _)
LexLess(a, b) ==
    IF a = <<>> THEN b # <<>>
    ELSE IF b = <<>> THEN FALSE
    ELSE IF Head(a) < Head(b) THEN TRUE
    ELSE IF Head(a) > Head(b) THEN FALSE
    ELSE LexLess(Tail(a), Tail(b))

RECURSIVE sorted(_)
sorted(S) ==
    IF S = {} THEN <<>>
    ELSE LET m == CHOOSE x \in S : \A y \in S \ {x} : LexLess(x, y)
         IN <<m>> \o sorted(S \ {m})

\* ------------------------------------------ dict (insertion-ordered) ops
DictKeys(d) == {d[i].id : i \in 1..Len(d)}

KeyList(d) == [i \in 1..Len(d) |-> d[i].id]

Contains(d, k) == \E i \in 1..Len(d) : d[i].id = k

Lookup(d, k) == d[CHOOSE i \in 1..Len(d) : d[i].id = k].agent

DictSet(d, k, v) ==
    IF Contains(d, k)
    THEN [i \in 1..Len(d) |-> IF d[i].id = k THEN [id |-> k, agent |-> v] ELSE d[i]]
    ELSE Append(d, [id |-> k, agent |-> v])

RECURSIVE DictDel(_, _)
DictDel(d, k) ==
    IF d = <<>> THEN <<>>
    ELSE IF Head(d).id = k THEN Tail(d)
    ELSE <<Head(d)>> \o DictDel(Tail(d), k)

RECURSIVE DictDelAll(_, _)
DictDelAll(d, ks) ==
    IF ks = <<>> THEN d
    ELSE DictDelAll(DictDel(d, Head(ks)), Tail(ks))

SeqToSet(s) == {s[i] : i \in 1..Len(s)}


RECURSIVE Concat(_)
Concat(texts) ==
    IF texts = <<>> THEN <<>> ELSE Head(texts) \o Concat(Tail(texts))

\* ----------------------------------------------------------------- state
VARIABLES
    max_active_agents,  \* self.config.max_active_agents
    enable_streaming,   \* self.config.enable_streaming
    active_agents,      \* self.active_agents: dict session id -> AgentExecutor
    nextAgent,          \* number of AgentExecutor objects constructed so far
    call,               \* one execute_agent coroutine, followed through its steps
    last,               \* history: the most recent get_agent call that returned
    issued,             \* history: session id -> agent last returned for it (0: none)
    evictedSince,       \* history: session id evicted after that agent was registered
    raw_result,         \* _process_response: the raw agent result handed to it
    processed,          \* _process_response: what the caller got for it
    tool_registry,      \* ToolRegistry: the registered tools
    agent_tools,        \* _create_agent: the tools bound to each constructed agent
    variant,            \* which AgentClient class the page loaded
    handlers,           \* AgentClient: the callbacks set (onMessage, onThinking, onError)
    socket,             \* AgentClient: readyState of this.socket / this.ws
    stale,              \* replaced sockets closed by the client, close event pending
    isConnected,        \* AgentClient.isConnected
    timers,             \* pending reconnect timers, each with its delay
    threadId,           \* AgentClient.threadId
    thinking,           \* LaunchChat: indicator elements, running intervals
    waiting,            \* sendMessageWs calls polling isConnected
    wsSent,             \* messages handed to socket.send, not yet at the server
    inbound,            \* the last inbound message and the handler that got it
    versionHistory,     \* app.js: let versionHistory
    saved,              \* localStorage item launchVersionHistory
    currentRunId,       \* app.js: let currentRunId (0: null)
    loading,            \* the #loading indicator is shown
    output,             \* #output text and whether #output-section is shown
    modal,              \* the feedback modal: shown, active stars
    mainStars,          \* active stars of #feedback-stars
    requests,           \* HTTP requests in flight
    created,            \* generations the server has completed
    reloading,          \* window.location.reload() was called
    notice,             \* the message the last handler showed the user
    versions,           \* VersionControl: the versions state
    inflight,           \* execute_agent calls suspended in agent.ainvoke
    httpSent,           \* sendMessageHttp requests in flight
    received,           \* history: the thread id most recently received (0: none)
    component,          \* which preview component is mounted
    code,               \* the code prop of the preview component
    preview,            \* useState preview: the code it was computed for
    previewLoading,     \* useState loading of the preview component
    previewError,       \* useState error of the preview component
    previewRequests,    \* preview requests in flight, each with the code it sent
    questions,          \* Quiz: the questions prop
    currentQuestion,    \* Quiz: useState currentQuestion
    answers,            \* Quiz: useState answers
    showResults,        \* Quiz: useState showResults
    selectedAnswer,     \* Quiz: useState selectedAnswer
    showExplanation,    \* Quiz: useState showExplanation
    completed,          \* history: the scores onComplete was called with
    hook,               \* which animation hook the component uses
    mounted,            \* the component using the hook is mounted
    isActive,           \* useAnimationFrame: isActive.current
    frames,             \* callbacks requested for the next animation frame
    previousTimeRef,    \* previousTimeRef.current is defined
    startTimeRef,       \* useSmoothAnimation: startTimeRef.current is set
    elapsed,            \* frames since startTimeRef was set, up to the duration
    progress,           \* useState progress, as the raw progress in frames
    needsRender,        \* setProgress changed the state, the re-render is due
    finished,           \* history: onComplete was invoked
    called,             \* history: the latest frame invoked the callback
    tick,               \* history: flips on every animation frame
    control,            \* history: none, paused, resumed (after a pause)
    shortcuts,          \* useShortcuts: the shortcuts it was given
    modalOpen,          \* useShortcuts: useState modalOpen
    keyEvent,           \* history: the latest keydown event
    ran                 \* history: the shortcuts whose action that event ran

managerVars == <<max_active_agents, enable_streaming, active_agents, nextAgent,
                 call, last, issued, evictedSince>>

processVars == <<raw_result, processed>>

toolVars == <<tool_registry, agent_tools>>

clientVars == <<variant, handlers, socket, stale, isConnected, timers, threadId,
                thinking, waiting, wsSent, inbound, httpSent, received>>

pageVars == <<versionHistory, saved, currentRunId, loading, output, modal,
              mainStars, requests, created, reloading, notice, versions>>

callVars == <<inflight>>

previewVars == <<component, code, preview, previewLoading, previewError,
                 previewRequests>>

\* the state of the React components and hooks
quizVars == <<questions, currentQuestion, answers, showResults, selectedAnswer,
              showExplanation, completed>>

animationVars == <<hook, mounted, isActive, frames, previousTimeRef, startTimeRef,
                   elapsed, progress, needsRender, finished, called, tick, control>>

shortcutVars == <<shortcuts, modalOpen, keyEvent, ran>>

uiVars == <<previewVars, quizVars, animationVars, shortcutVars>>

\* everything but the React components and hooks
baseVars == <<managerVars, processVars, toolVars, clientVars, pageVars, callVars>>

notPreview == <<baseVars, quizVars, animationVars, shortcutVars>>

notQuiz == <<baseVars, previewVars, animationVars, shortcutVars>>

notAnimation == <<baseVars, previewVars, quizVars, shortcutVars>>

notShortcuts == <<baseVars, previewVars, quizVars, animationVars>>

vars == <<managerVars, processVars, toolVars, clientVars, pageVars, callVars, uiVars>>

\* what the actions of one part leave alone
notManager == <<processVars, toolVars, clientVars, pageVars, callVars, uiVars>>

notProcess == <<managerVars, toolVars, clientVars, pageVars, callVars, uiVars>>

notTools == <<managerVars, processVars, clientVars, pageVars, callVars, uiVars>>

notClient == <<managerVars, processVars, toolVars, pageVars, callVars, uiVars>>

notPage == <<managerVars, processVars, toolVars, clientVars, callVars, uiVars>>

\* what the calls on the manager leave alone
notCalls == <<processVars, toolVars, clientVars, pageVars, uiVars>>

NoResult == [none |-> TRUE]

IdleCall ==
    [pc |-> "idle", session_id |-> None, agent |-> 0, callback |-> FALSE,
     generated |-> <<>>, delivered |-> <<>>, result |-> NoResult]

NoCall ==
    [id |-> None, agent |-> 0, hit |-> FALSE, memory |-> FALSE,
     before |-> <<>>, evicted |-> {}]

\* ---------------------------------------------------------- AgentManager
\* variant: the lookup of line 254 never finds the session
has_agent_never(agents, session_id) == FALSE

\* "if session_id in self.active_agents"
has_agent(agents, session_id) == Contains(agents, session_id)

\* variant: the oldest by insertion, as the comment of line 333 has it
oldest_agents_fifo(agents, ceiling) ==
    IF Len(agents) > ceiling
    THEN SubSeq(KeyList(agents), 1, Len(agents) - ceiling)
    ELSE <<>>

\* sorted(self.active_agents.keys())[:len(self.active_agents) - max_active_agents]
oldest_agents(agents, ceiling) ==
    IF Len(agents) > ceiling
    THEN SubSeq(sorted(DictKeys(agents)), 1, Len(agents) - ceiling)
    ELSE <<>>

\* variant: nothing is ever cleaned up
cleanup_never(agents, ceiling) == agents

cleanup_old_agents(agents, ceiling) ==
    DictDelAll(agents, oldest_agents(agents, ceiling))

\* variant: a hit re-inserts the session at the end of the dict
get_agent_refresh(agents, session_id, fresh, ceiling) ==
    IF Contains(agents, session_id)
    THEN [session_id |-> session_id, agent |-> Lookup(agents, session_id),
          active_agents |-> DictSet(DictDel(agents, session_id), session_id,
                                    Lookup(agents, session_id)),
          hit |-> TRUE, before |-> KeyList(agents), evicted |-> {}]
    ELSE LET registered == DictSet(agents, session_id, fresh)
         IN [session_id |-> session_id, agent |-> fresh,
             active_agents |-> DictDelAll(registered, oldest_agents(registered, ceiling)),
             hit |-> FALSE,
             before |-> KeyList(registered),
             evicted |-> SeqToSet(oldest_agents(registered, ceiling))]

\* get_agent once the session id is fixed and the agent (if one is needed)
\* has been constructed as object `fresh`
get_agent(agents, session_id, fresh, ceiling) ==
    IF has_agent(agents, session_id)
    THEN [session_id |-> session_id, agent |-> Lookup(agents, session_id),
          active_agents |-> agents, hit |-> TRUE,
          before |-> KeyList(agents), evicted |-> {}]
    ELSE LET registered == DictSet(agents, session_id, fresh)
         IN [session_id |-> session_id, agent |-> fresh,
             active_agents |-> cleanup_old_agents(registered, ceiling),
             hit |-> FALSE,
             before |-> KeyList(registered),
             evicted |-> SeqToSet(oldest_agents(registered, ceiling))]

\* variant: the callback receives the tokens newest first
on_llm_new_token_prepend(delivered, token) == <<token>> \o delivered

\* StreamingCallbackHandler.on_llm_new_token: self.callback(token)
on_llm_new_token(delivered, token) == Append(delivered, token)

\* "if streaming_callback and self.config.enable_streaming"
streaming_handler(streaming_callback, streaming) == streaming_callback /\ streaming

\* dict.get(key, default): the default stands in for a key the dict lacks
Get(dict, key, default) == IF key \in DOMAIN dict THEN dict[key] ELSE default

\* step[0].tool, step[0].tool_input and step[1] can all be read
StepReadable(step) ==
    /\ Len(step) >= 2
    /\ {"tool", "tool_input"} \subseteq DOMAIN step[1]

\* variant: each record goes to the front of the list
tool_usage_prepend(usage, step) ==
    <<[tool |-> step[1].tool, input |-> step[1].tool_input, output |-> step[2]]>>
        \o usage

\* one turn of the loop over the intermediate steps: tool_usage.append({...})
tool_usage_append(usage, step) ==
    Append(usage,
           [tool |-> step[1].tool, input |-> step[1].tool_input, output |-> step[2]])

\* the loop over the intermediate steps, from the first step on
RECURSIVE tool_usage_loop(_, _)
tool_usage_loop(usage, steps) ==
    IF steps = <<>> THEN usage
    ELSE tool_usage_loop(tool_usage_append(usage, Head(steps)), Tail(steps))

\* the loop raises at the first step it cannot read
process_raises(response) ==
    \E i \in DOMAIN Get(response, "intermediate_steps", <<>>) :
        ~StepReadable(Get(response, "intermediate_steps", <<>>)[i])

process_response(response) ==
    [output |-> sanitize_output(Get(response, "output", <<>>)),
     tool_usage |-> tool_usage_loop(<<>>, Get(response, "intermediate_steps", <<>>)),
     raw_response |-> response]

\* variant: a failed run drops its session from the table
execute_except_drop(agents, session_id, message) ==
    [active_agents |-> DictDel(agents, session_id),
     result |-> [output |-> ErrorPrefix \o message, error |-> TRUE,
                 tool_usage |-> <<>>]]

\* the except branch of execute_agent
execute_except(agents, session_id, message) ==
    [active_agents |-> agents,
     result |-> [output |-> ErrorPrefix \o message, error |-> TRUE,
                 tool_usage |-> <<>>]]

IsError(result) == "error" \in DOMAIN result /\ result.error

\* ToolRegistry.register_tool: the tool joins the registry
register_tool(registry, tool) == registry \cup {tool}

\* ToolRegistry.get_tools: the tools registered at the time of the call
get_tools(registry) == registry

\* variant: constructing an agent rebinds every agent to the current tools
create_agent_rebind(bound, registry) ==
    [i \in 1..(Len(bound) + 1) |-> get_tools(registry)]

\* _create_agent: tools = self.tool_registry.get_tools(), bound to the new
\* AgentExecutor; bound[i] is the tool set of the i-th agent constructed
create_agent(bound, registry) == Append(bound, get_tools(registry))

\* ------------------------------------------------------------ AgentClient
\* the two AgentClient classes: agent-client.js and the one inside app.js
AgentClientJs == "agent-client.js"

AppJs == "app.js"

\* the delay of the reconnect timer, in milliseconds
ReconnectDelay == 3000

\* the type tags of inbound socket messages
MessageTypes == {"thinking", "response", "error", "message"}

\* thread ids the server hands out; 0 stands for null / none in the message
ThreadIds == {1, 2}

\* agent-client.js onmessage: the handler that is called for a message type
dispatch_agent_client(type, set) ==
    IF type = "thinking" /\ "onThinking" \in set THEN "onThinking"
    ELSE IF type = "response" /\ "onMessage" \in set THEN "onMessage"
    ELSE IF type = "error" /\ "onError" \in set THEN "onError"
    ELSE "none"

\* app.js onmessage: the handler that is called for a message type
dispatch_app(type, set) ==
    IF type = "message" /\ "onMessage" \in set THEN "onMessage"
    ELSE IF type = "thinking" /\ "onThinking" \in set THEN "onThinking"
    ELSE IF type = "error" /\ "onError" \in set THEN "onError"
    ELSE "none"

dispatch(v, type, set) ==
    IF v = AgentClientJs THEN dispatch_agent_client(type, set)
    ELSE dispatch_app(type, set)

\* LaunchChat.startThinking: one more indicator element, one more interval,
\* this.thinkingInterval is the new interval
startThinking(t) ==
    [indicators |-> t.indicators + 1, intervals |-> t.intervals + 1, current |-> TRUE]

\* LaunchChat.stopThinking: clearInterval(this.thinkingInterval), remove the
\* first element with id thinking-indicator
stopThinking(t) ==
    [indicators |-> IF t.indicators > 0 THEN t.indicators - 1 ELSE 0,
     intervals |-> IF t.current THEN t.intervals - 1 ELSE t.intervals,
     current |-> FALSE]

\* LaunchChat.handleAgentThinking: starts the animation unless one is shown
handleAgentThinking(t) == IF t.indicators > 0 THEN t ELSE startThinking(t)

\* what the LaunchChat handler called for an inbound message does to the chat
handle(handler, t) ==
    CASE handler = "onMessage" -> stopThinking(t)
      [] handler = "onError" -> stopThinking(t)
      [] handler = "onThinking" -> handleAgentThinking(t)
      [] OTHER -> t

\* variant: a closed socket schedules no reconnect
onclose_no_timer(pending) == pending

\* onclose: setTimeout(..., 3000)
onclose(pending) == Append(pending, ReconnectDelay)

\* initWebSocket: agent-client.js closes the socket it replaces, whose close
\* event then is still to come; a closed socket has none left
init_stale(v, sock, n) ==
    IF v = AgentClientJs /\ sock \in {"connecting", "open"} THEN n + 1 ELSE n

\* the readyState values in which initWebSocket may be called within the bounds
CanInit(v, sock, n) == init_stale(v, sock, n) <= MaxStale

\* string.trim() on a text of one-character strings
RECURSIVE TrimStart(_)
TrimStart(text) ==
    IF text # <<>> /\ Head(text) = " " THEN TrimStart(Tail(text)) ELSE text

RECURSIVE TrimEnd(_)
TrimEnd(text) ==
    IF text # <<>> /\ text[Len(text)] = " "
    THEN TrimEnd(SubSeq(text, 1, Len(text) - 1))
    ELSE text

\* variant: the text is taken as typed
trim_none(text) == text

trim(text) == TrimEnd(TrimStart(text))

\* what the user can have typed into the chat input or the prompt field
Typed == {<<>>, <<" ">>, <<"a">>, <<" ", "a">>}

NoMessage == [type |-> "none", handler |-> "none", thread_id |-> 0]

NotThinking == [indicators |-> 0, intervals |-> 0, current |-> FALSE]

ClientIdle ==
    /\ variant = AppJs
    /\ handlers = {}
    /\ socket = "none"
    /\ stale = 0
    /\ isConnected = FALSE
    /\ timers = <<>>
    /\ threadId = 0
    /\ thinking = NotThinking
    /\ waiting = <<>>
    /\ wsSent = <<>>
    /\ inbound = NoMessage
    /\ httpSent = <<>>
    /\ received = 0

\* ----------------------------------------------------------------- app.js
\* the stars of a rating widget
Stars == 5

\* variant: the version goes to the end of the list
addToVersionHistory_push(history, version) == history \o <<version, version>>

\* addToVersionHistory: versionHistory.unshift(version), twice (lines 478, 482)
addToVersionHistory(history, version) == <<version, version>> \o history

\* the version list the server returns: every generation, newest first
ServerVersions(n) == [i \in 1..n |-> n + 1 - i]

\* string.startsWith(prefix)
StartsWith(text, prefix) ==
    /\ Len(text) >= Len(prefix)
    /\ SubSeq(text, 1, Len(prefix)) = prefix

ImagePrefix == <<"i", "m", "a", "g", "e", "/">>

\* the selections of the file input: nothing, a text file, an image
FileLists ==
    {<<>>,
     <<[type |-> <<"t", "e", "x", "t", "/", "p">>]>>,
     <<[type |-> ImagePrefix \o <<"p", "n", "g">>]>>}

\* uploadScreenshot, lines 212-223: the message it rejects a selection with
upload_rejects(files) ==
    IF files = <<>> THEN "file"
    ELSE IF ~StartsWith(files[1].type, ImagePrefix) THEN "image"
    ELSE "none"

\* variant: any rating is sent
feedback_rejects_never(run, rating) == "none"

\* submitFeedback, lines 363-375: the message it rejects the call with
feedback_rejects(run, rating) ==
    IF run = 0 THEN "norun"
    ELSE IF rating = 0 THEN "rating"
    ELSE "none"

\* the sequence without its i-th element
Remove(seq, i) == SubSeq(seq, 1, i - 1) \o SubSeq(seq, i + 1, Len(seq))

NoOutput == [text |-> 0, shown |-> FALSE]

NoModal == [shown |-> FALSE, stars |-> 0]

PageIdle ==
    /\ versionHistory = <<>>
    /\ saved = <<>>
    /\ currentRunId = 0
    /\ loading = FALSE
    /\ output = NoOutput
    /\ modal = NoModal
    /\ mainStars = 0
    /\ requests = <<>>
    /\ created = 0
    /\ reloading = FALSE
    /\ notice = "none"
    /\ versions = <<>>

\* ------------------------------------------------------------------ Init
\* a raw agent result: the "output" text and the "intermediate_steps" list of
\* (AgentAction, observation) pairs, either key possibly missing
ToolInputs == {"query"}

ToolOutputs == {"hit", "miss"}

GoodSteps ==
    {<<[tool |-> t, tool_input |-> i], o>> :
        t \in ToolNames, i \in ToolInputs, o \in ToolOutputs}

\* a step that is no (action, observation) pair
BadStep == <<[log |-> "text"]>>

RECURSIVE StepLists(_)
StepLists(n) ==
    IF n = 0 THEN {<<>>}
    ELSE StepLists(n - 1) \cup
         {Append(l, st) : l \in {m \in StepLists(n - 1) : Len(m) = n - 1},
                          st \in GoodSteps \cup {BadStep}}

OutputTexts == {<<>>, <<SafeChar>>, <<UnsafeChar>>}

RawResponses ==
    {[output |-> o, intermediate_steps |-> l] :
        o \in OutputTexts, l \in StepLists(MaxSteps)}
    \cup {[output |-> o] : o \in OutputTexts}
    \cup {[intermediate_steps |-> l] : l \in StepLists(MaxSteps)}
    \cup {[input |-> <<>>]}

NotProcessed == [status |-> "pending"]

ManagerIdle ==
    /\ inflight = <<>>
    /\ max_active_agents = 1
    /\ enable_streaming = FALSE
    /\ active_agents = <<>>
    /\ nextAgent = 0
    /\ call = IdleCall
    /\ last = NoCall
    /\ issued = [k \in SessionKeys |-> 0]
    /\ evictedSince = [k \in SessionKeys |-> FALSE]

ProcessIdle ==
    /\ raw_result = [input |-> <<>>]
    /\ processed = NotProcessed

ToolsIdle ==
    /\ tool_registry = {}
    /\ agent_tools = <<>>

\* ------------------------------------------------------ preview components
LivePreviewTsx == "live-preview.tsx"

PreviewTsx == "preview.tsx"

\* values of the code prop: 0 is the empty string
Codes == {0, 1, 2}

\* useState('') of preview, before any preview was computed
NoPreview == [none |-> TRUE]

\* the effect on [code, componentType]: live-preview.tsx returns early on an
\* empty code, preview.tsx always calls generatePreview
effect_requests(comp, c) == comp = PreviewTsx \/ c # 0

\* generatePreview after the fetch settles: setPreview(data.preview) when the
\* response is ok, whatever the code prop is by then
preview_reply(current, requested, ok) ==
    IF ok THEN [code |-> requested] ELSE current

\* -------------------------------------------------------------------- Quiz
\* useState<number | null>(null) of selectedAnswer
NoAnswer == -1

\* a question: the index of its correct option, whether it has an explanation
QuestionSet ==
    [correctAnswer : 0..(MaxOptions - 1), explanation : BOOLEAN]

RECURSIVE QuestionLists(_)
QuestionLists(n) ==
    IF n = 0 THEN {<<>>}
    ELSE {Append(l, q) : l \in QuestionLists(n - 1), q \in QuestionSet}

\* variant: every recorded answer scores
reduce_score_all(given, qs, index) == Len(given) + 1 - index

\* newAnswers.reduce(...): one more for each answer, from index on, that
\* equals the correctAnswer of its question (indices here start at 1)
RECURSIVE reduce_score(_, _, _)
reduce_score(given, qs, index) ==
    IF index > Len(given) THEN 0
    ELSE (IF given[index] = qs[index].correctAnswer THEN 1 ELSE 0)
         + reduce_score(given, qs, index + 1)

\* the Retry Quiz handler, lines 67-72, has no setShowExplanation call
retry_explanation(shown) == shown

QuizIdle ==
    /\ questions = <<[correctAnswer |-> 0, explanation |-> FALSE]>>
    /\ currentQuestion = 0
    /\ answers = <<>>
    /\ showResults = FALSE
    /\ selectedAnswer = NoAnswer
    /\ showExplanation = FALSE
    /\ completed = <<>>

PreviewIdle ==
    /\ component = PreviewTsx
    /\ code = 0
    /\ preview = NoPreview
    /\ previewLoading = FALSE
    /\ previewError = FALSE
    /\ previewRequests = <<>>

\* --------------------------------------------------------- animation hooks
\* useAnimationFrame called with a callback whose identity is stable
UseAnimationFrame == "useAnimationFrame"

\* useSmoothAnimation: it passes useAnimationFrame a new arrow function on
\* every render (line 61)
UseSmoothAnimation == "useSmoothAnimation"

Min(a, b) == IF a < b THEN a ELSE b

\* the part of the state the callbacks of one frame work on; requested are
\* the requestAnimationFrame calls they make
FrameState(now) ==
    [previousTimeRef |-> previousTimeRef, startTimeRef |-> startTimeRef,
     progress |-> progress, needsRender |-> needsRender, finished |-> finished,
     called |-> FALSE, requested |-> <<>>, now |-> now]

\* the callback of useSmoothAnimation, lines 61-78, with linear easing and no
\* delay; setProgress with the value the state has causes no re-render
smooth_callback(st) ==
    IF ~st.startTimeRef
    THEN [st EXCEPT !.startTimeRef = TRUE, !.called = TRUE]
    ELSE [st EXCEPT !.progress = Min(st.now, MaxFrames),
                    !.needsRender = @ \/ Min(st.now, MaxFrames) # st.progress,
                    !.finished = @ \/ st.now >= MaxFrames,
                    !.called = TRUE]

\* callback(): the one the hook was given
callback(h, st) ==
    IF h = UseSmoothAnimation THEN smooth_callback(st)
    ELSE [st EXCEPT !.called = TRUE]

\* animate, lines 18-28
animate(h, active, st) ==
    LET after == IF st.previousTimeRef /\ active THEN callback(h, st) ELSE st
    IN [after EXCEPT !.previousTimeRef = TRUE,
                   !.requested = IF active THEN Append(@, "animate") ELSE @]

\* the frame callback resume() requests, lines 45-50: it requests no frame
resumed_frame(h, active, st) ==
    LET timed == [st EXCEPT !.previousTimeRef = TRUE]
    IN IF active THEN callback(h, timed) ELSE timed

\* the callbacks requested for a frame, run in the order they were requested
RECURSIVE run_frame(_, _, _, _)
run_frame(h, active, pending, st) ==
    IF pending = <<>> THEN st
    ELSE run_frame(h, active, Tail(pending),
                   IF Head(pending) = "animate" THEN animate(h, active, st)
                   ELSE resumed_frame(h, active, st))

\* cancelAnimationFrame(requestRef.current): requestRef names the request made
\* last, which is the last one pending unless it has run already
cancel(pending) ==
    IF pending = <<>> THEN <<>> ELSE SubSeq(pending, 1, Len(pending) - 1)

AnimationIdle ==
    /\ hook = UseAnimationFrame
    /\ mounted = FALSE
    /\ isActive = TRUE
    /\ frames = <<>>
    /\ previousTimeRef = FALSE
    /\ startTimeRef = FALSE
    /\ elapsed = 0
    /\ progress = 0
    /\ needsRender = FALSE
    /\ finished = FALSE
    /\ called = FALSE
    /\ tick = FALSE
    /\ control = "none"

\* ------------------------------------------------------------ useShortcuts
\* String.prototype.toLowerCase on a key name of one letter
toLowerCase(key) ==
    CASE key = "K" -> "k"
      [] key = "S" -> "s"
      [] OTHER -> key

\* the key names of keydown events
EventKeys == {"k", "K", "s", "S"}

\* a ShortcutConfig: key, ctrlKey, shiftKey, altKey (a flag left out is false)
ShortcutConfigs ==
    [key : {"k", "S"}, ctrlKey : BOOLEAN, shiftKey : BOOLEAN, altKey : BOOLEAN]

RECURSIVE ShortcutLists(_)
ShortcutLists(n) ==
    IF n = 0 THEN {<<>>}
    ELSE ShortcutLists(n - 1) \cup
         {Append(l, s) : l \in {m \in ShortcutLists(n - 1) : Len(m) = n - 1},
                         s \in ShortcutConfigs}

KeyboardEvents ==
    [key : EventKeys, ctrlKey : BOOLEAN, metaKey : BOOLEAN, shiftKey : BOOLEAN,
     altKey : BOOLEAN]

\* keyMatch && ctrlMatch && shiftMatch && altMatch, lines 49-54
shortcut_matches(shortcut, event) ==
    /\ toLowerCase(event.key) = toLowerCase(shortcut.key)
    /\ shortcut.ctrlKey = (event.ctrlKey \/ event.metaKey)
    /\ shortcut.shiftKey = event.shiftKey
    /\ shortcut.altKey = event.altKey

\* the loop of lines 48-61 from the i-th shortcut on: the action of the first
\* match runs and the handler returns
RECURSIVE run_shortcuts(_, _, _)
run_shortcuts(list, event, i) ==
    IF i > Len(list) THEN <<>>
    ELSE IF shortcut_matches(list[i], event) THEN <<i>>
    ELSE run_shortcuts(list, event, i + 1)

\* Cmd/Ctrl + K, line 41
opens_modal(event) == (event.metaKey \/ event.ctrlKey) /\ event.key = "k"

\* handleKeyDown, lines 39-62
handleKeyDown(list, event, open) ==
    IF opens_modal(event)
    THEN [modalOpen |-> TRUE, ran |-> <<>>]
    ELSE [modalOpen |-> open, ran |-> run_shortcuts(list, event, 1)]

NoEvent == [key |-> "none"]

ShortcutsIdle ==
    /\ shortcuts = <<>>
    /\ modalOpen = FALSE
    /\ keyEvent = NoEvent
    /\ ran = <<>>

UiIdle ==
    /\ PreviewIdle
    /\ QuizIdle
    /\ AnimationIdle
    /\ ShortcutsIdle

Init ==
    /\ inflight = <<>>
    /\ UiIdle
    /\ ProcessIdle
    /\ ToolsIdle
    /\ ClientIdle
    /\ PageIdle
    /\ max_active_agents \in 1..MaxCeiling
    /\ enable_streaming \in BOOLEAN
    /\ active_agents = <<>>
    /\ nextAgent = 0
    /\ call = IdleCall
    /\ last = NoCall
    /\ issued = [k \in SessionKeys |-> 0]
    /\ evictedSince = [k \in SessionKeys |-> FALSE]

\* --------------------------------------------------------------- actions
\* session ids uuid.uuid4() can yield: one no live session has
FreshIds == SessionKeys \ DictKeys(active_agents)

\* the effect of a get_agent call that returns r on the table and the history
Returned(r) ==
    /\ active_agents' = r.active_agents
    /\ nextAgent' = IF r.hit THEN nextAgent ELSE nextAgent + 1
    /\ last' = [id |-> r.session_id, agent |-> r.agent, hit |-> r.hit,
                memory |-> ~r.hit, before |-> r.before, evicted |-> r.evicted]
    /\ issued' = [issued EXCEPT ![r.session_id] = r.agent]
    /\ evictedSince' =
         [k \in SessionKeys |->
            IF k \in r.evicted THEN TRUE
            ELSE IF k = r.session_id /\ ~r.hit THEN FALSE
            ELSE evictedSince[k]]

\* get_agent(session_id) called on the manager and returning (by the
\* transport layer, or by an execute_agent call other than `call`)
GetAgent(session_id, uuid) ==
    LET sid == IF session_id = None THEN uuid ELSE session_id
        r == get_agent(active_agents, sid, nextAgent + 1, max_active_agents)
    IN /\ r.hit \/ nextAgent < MaxAgents
       /\ Returned(r)
       /\ UNCHANGED <<max_active_agents, enable_streaming, call>>

\* execute_agent up to its suspension in agent.ainvoke; get_agent returned
ExecuteStart(session_id, uuid, streaming_callback) ==
    LET sid == IF session_id = None THEN uuid ELSE session_id
        r == get_agent(active_agents, sid, nextAgent + 1, max_active_agents)
    IN /\ call.pc = "idle"
       /\ r.hit \/ nextAgent < MaxAgents
       /\ Returned(r)
       /\ call' = [IdleCall EXCEPT !.pc = "invoking",
                                   !.session_id = r.session_id,
                                   !.agent = r.agent,
                                   !.callback = streaming_callback]
       /\ UNCHANGED <<max_active_agents, enable_streaming>>

\* execute_agent when _create_agent raises inside get_agent (line 360 is
\* outside the try): nothing is registered, the exception leaves execute_agent
ExecuteCreateRaise(session_id, uuid, streaming_callback) ==
    LET sid == IF session_id = None THEN uuid ELSE session_id
    IN /\ call.pc = "idle"
       /\ ~has_agent(active_agents, sid)
       /\ call' = [IdleCall EXCEPT !.pc = "raised", !.session_id = sid,
                                   !.callback = streaming_callback]
       /\ UNCHANGED <<max_active_agents, enable_streaming, active_agents,
                      nextAgent, last, issued, evictedSince>>

\* the model generates one more token during agent.ainvoke
LlmNewToken(token) ==
    /\ call.pc = "invoking"
    /\ Len(call.generated) < MaxTokens
    /\ call' = [call EXCEPT
         !.generated = Append(@, token),
         !.delivered = IF streaming_handler(call.callback, enable_streaming)
                       THEN on_llm_new_token(@, token) ELSE @]
    /\ UNCHANGED <<max_active_agents, enable_streaming, active_agents, nextAgent,
                   last, issued, evictedSince>>

\* agent.ainvoke returns: _process_response, return
AinvokeReturn ==
    /\ call.pc = "invoking"
    /\ call' = [call EXCEPT
         !.pc = "returned",
         !.result = process_response([output |-> Concat(call.generated)])]
    /\ UNCHANGED <<max_active_agents, enable_streaming, active_agents, nextAgent,
                   last, issued, evictedSince>>

\* agent.ainvoke raises: the except branch returns the soft-fail result
AinvokeRaise(message) ==
    LET e == execute_except(active_agents, call.session_id, message)
    IN /\ call.pc = "invoking"
       /\ active_agents' = e.active_agents
       /\ call' = [call EXCEPT !.pc = "returned", !.result = e.result]
       /\ UNCHANGED <<max_active_agents, enable_streaming, nextAgent,
                      last, issued, evictedSince>>

\* the transport layer takes what execute_agent returned or raised
Finish ==
    /\ call.pc \in {"returned", "raised"}
    /\ call' = IdleCall
    /\ UNCHANGED <<max_active_agents, enable_streaming, active_agents, nextAgent,
                   last, issued, evictedSince>>

Next ==
    \/ /\ \E sid \in SessionKeys \cup {None}, uuid \in FreshIds : GetAgent(sid, uuid)
       /\ UNCHANGED notManager
    \/ /\ \E sid \in SessionKeys \cup {None}, uuid \in FreshIds, cb \in BOOLEAN :
            ExecuteStart(sid, uuid, cb)
       /\ UNCHANGED notManager
    \/ /\ \E sid \in SessionKeys \cup {None}, uuid \in FreshIds, cb \in BOOLEAN :
            ExecuteCreateRaise(sid, uuid, cb)
       /\ UNCHANGED notManager
    \/ /\ \E token \in Tokens : LlmNewToken(token)
       /\ UNCHANGED notManager
    \/ /\ AinvokeReturn
       /\ UNCHANGED notManager
    \/ /\ \E m \in ErrorMessages : AinvokeRaise(m)
       /\ UNCHANGED notManager
    \/ /\ Finish
       /\ UNCHANGED notManager

Spec == Init /\ [][Next]_vars

\* ----------------------------------------- execute_agent calls side by side
\* execute_agent of one more caller, lines 359-378: get_agent returned and the
\* call is suspended in agent.ainvoke on the agent it was given
ExecuteAgent(session_id, uuid) ==
    LET sid == IF session_id = None THEN uuid ELSE session_id
        r == get_agent(active_agents, sid, nextAgent + 1, max_active_agents)
    IN /\ Len(inflight) < MaxCalls
       /\ r.hit \/ nextAgent < MaxAgents
       /\ Returned(r)
       /\ inflight' = Append(inflight, [session_id |-> r.session_id, agent |-> r.agent])
       /\ UNCHANGED <<max_active_agents, enable_streaming, call>>

\* agent.ainvoke of a suspended call returns or raises: execute_agent returns,
\* lines 380-392, and lets go of its agent
ExecuteReturn(i) ==
    /\ inflight' = Remove(inflight, i)
    /\ UNCHANGED managerVars

NextCalls ==
    \/ /\ \E sid \in SessionKeys \cup {None}, uuid \in FreshIds : GetAgent(sid, uuid)
       /\ UNCHANGED <<inflight, notCalls>>
    \/ /\ \E sid \in SessionKeys \cup {None}, uuid \in FreshIds : ExecuteAgent(sid, uuid)
       /\ UNCHANGED notCalls
    \/ /\ \E i \in DOMAIN inflight : ExecuteReturn(i)
       /\ UNCHANGED notCalls

SpecCalls == Init /\ [][NextCalls]_vars

\* ------------------------------------------- the post-processor on its own
\* execute_agent lines 382-392 for a raw result the agent returned: the
\* processed response, or the except branch when _process_response raises
ProcessResponse ==
    /\ processed = NotProcessed
    /\ processed' =
         IF process_raises(raw_result)
         THEN [status |-> "raised",
               result |-> execute_except(active_agents, None, <<SafeChar>>).result]
         ELSE [status |-> "returned", result |-> process_response(raw_result)]
    /\ UNCHANGED <<raw_result, notProcess>>

\* the caller takes the result; the next raw result arrives
NextResponse ==
    /\ processed # NotProcessed
    /\ raw_result' \in RawResponses
    /\ processed' = NotProcessed
    /\ UNCHANGED notProcess

InitProcess ==
    /\ ManagerIdle
    /\ UiIdle
    /\ ToolsIdle
    /\ ClientIdle
    /\ PageIdle
    /\ raw_result \in RawResponses
    /\ processed = NotProcessed

NextProcess ==
    \/ ProcessResponse
    \/ NextResponse

SpecProcess == InitProcess /\ [][NextProcess]_vars

\* ---------------------------------------- the tool registry and the agents
\* tool_registry.register_tool(tool) for a tool name not yet registered
RegisterTool(tool) ==
    /\ tool \notin tool_registry
    /\ tool_registry' = register_tool(tool_registry, tool)
    /\ UNCHANGED <<agent_tools, notTools>>

\* get_agent constructs an agent for a session that has none
CreateAgent ==
    /\ Len(agent_tools) < MaxAgents
    /\ agent_tools' = create_agent(agent_tools, tool_registry)
    /\ UNCHANGED <<tool_registry, notTools>>

InitTools ==
    /\ ManagerIdle
    /\ UiIdle
    /\ ProcessIdle
    /\ ToolsIdle
    /\ ClientIdle
    /\ PageIdle

NextTools ==
    \/ \E tool \in ToolNames : RegisterTool(tool)
    \/ CreateAgent

SpecTools == InitTools /\ [][NextTools]_vars

\* ------------------------------------------- the chat and its AgentClient
\* setOnMessage / setOnThinking / setOnError
SetHandler(h) ==
    /\ h \notin handlers
    /\ handlers' = handlers \cup {h}
    /\ UNCHANGED <<variant, socket, stale, isConnected, timers, threadId, thinking,
                   waiting, wsSent, inbound, httpSent,
                   received, notClient>>

\* the first initWebSocket call, made by the LaunchChat constructor
InitWebSocket ==
    /\ socket = "none"
    /\ socket' = "connecting"
    /\ stale' = init_stale(variant, socket, stale)
    /\ UNCHANGED <<variant, handlers, isConnected, timers, threadId, thinking,
                   waiting, wsSent, inbound, httpSent,
                   received, notClient>>

\* onopen: the server accepted the connection
SocketOpen ==
    /\ socket = "connecting"
    /\ socket' = "open"
    /\ isConnected' = (variant = AgentClientJs)
    /\ UNCHANGED <<variant, handlers, stale, timers, threadId, thinking,
                   waiting, wsSent, inbound, httpSent,
                   received, notClient>>

\* the current socket closes (the attempt failed, or the connection ended):
\* onerror unless the close is clean, then onclose
SocketClose(clean) ==
    /\ socket \in {"connecting", "open"}
    /\ clean => socket = "open"
    /\ Len(timers) < MaxTimers
    /\ socket' = "closed"
    /\ thinking' = IF ~clean /\ variant = AgentClientJs /\ "onError" \in handlers
                   THEN stopThinking(thinking)
                   ELSE thinking
    /\ isConnected' = FALSE
    /\ timers' = onclose(timers)
    /\ UNCHANGED <<variant, handlers, stale, threadId, waiting, wsSent, inbound,
                   httpSent,
                   received, notClient>>

\* the close event of a socket that initWebSocket replaced and closed
StaleClose(errored) ==
    /\ stale > 0
    /\ Len(timers) < MaxTimers
    /\ stale' = stale - 1
    /\ thinking' = IF errored /\ "onError" \in handlers
                   THEN stopThinking(thinking)
                   ELSE thinking
    /\ isConnected' = FALSE
    /\ timers' = onclose(timers)
    /\ UNCHANGED <<variant, handlers, socket, threadId, waiting, wsSent, inbound,
                   httpSent,
                   received, notClient>>

\* a reconnect timer fires: app.js calls initWebSocket, agent-client.js calls
\* it if isConnected is false
TimerFire ==
    /\ timers # <<>>
    /\ timers' = Tail(timers)
    /\ IF variant = AppJs \/ ~isConnected
       THEN /\ CanInit(variant, socket, stale)
            /\ socket' = "connecting"
            /\ stale' = init_stale(variant, socket, stale)
       ELSE UNCHANGED <<socket, stale>>
    /\ UNCHANGED <<variant, handlers, isConnected, threadId, thinking, waiting,
                   wsSent, inbound, httpSent,
                   received, notClient>>


\* startThinking within the bounds
CanStart(t) == t.indicators < MaxThinking /\ t.intervals < MaxThinking

\* LaunchChat.sendMessage with the chat input holding message:
\* app.js sendMessageWs sends on an open socket and rejects otherwise (the
\* catch stops the animation); agent-client.js sendMessageWs sends on an open
\* socket, else calls initWebSocket and polls isConnected before it sends
SendMessage(message) ==
    LET text == trim(message)
        started == startThinking(thinking)
    IN IF text = <<>>
       THEN UNCHANGED vars
       ELSE /\ CanStart(thinking)
            /\ IF socket = "open"
               THEN /\ Len(wsSent) < MaxSent
                    /\ wsSent' = Append(wsSent,
                          IF variant = AgentClientJs
                          THEN [message |-> text, thread_id |-> threadId]
                          ELSE [message |-> text])
                    /\ thinking' = started
                    /\ UNCHANGED <<socket, stale, waiting>>
               ELSE IF variant = AppJs
               THEN /\ thinking' = stopThinking(started)
                    /\ UNCHANGED <<socket, stale, waiting, wsSent>>
               ELSE /\ CanInit(variant, socket, stale)
                    /\ socket' = "connecting"
                    /\ stale' = init_stale(variant, socket, stale)
                    /\ IF isConnected
                       THEN /\ thinking' = stopThinking(started)
                            /\ UNCHANGED waiting
                       ELSE /\ Len(waiting) < MaxWaiting
                            /\ waiting' = Append(waiting, text)
                            /\ thinking' = started
                    /\ UNCHANGED wsSent
            /\ UNCHANGED <<variant, handlers, isConnected, timers, threadId, inbound,
                           httpSent,
                   received, notClient>>

\* checkConnection finds isConnected set: this.socket.send(...), which throws
\* on a connecting socket and drops the data on a closed one
Poll ==
    /\ waiting # <<>>
    /\ isConnected
    /\ waiting' = Tail(waiting)
    /\ CASE socket = "open" ->
              /\ Len(wsSent) < MaxSent
              /\ wsSent' = Append(wsSent,
                                  [message |-> Head(waiting), thread_id |-> threadId])
              /\ UNCHANGED thinking
         [] socket = "connecting" ->
              /\ thinking' = stopThinking(thinking)
              /\ UNCHANGED wsSent
         [] OTHER -> UNCHANGED <<thinking, wsSent>>
    /\ UNCHANGED <<variant, handlers, socket, stale, isConnected, timers, threadId,
                   inbound, httpSent,
                   received, notClient>>

\* a sent message reaches the server
ServerReceive ==
    /\ wsSent # <<>>
    /\ wsSent' = Tail(wsSent)
    /\ UNCHANGED <<variant, handlers, socket, stale, isConnected, timers, threadId,
                   thinking, waiting, inbound, httpSent,
                   received, notClient>>

\* onmessage for a message of the given type, with thread id tid (0: none)
Receive(type, tid) ==
    LET handler == dispatch(variant, type, handlers)
    IN /\ socket = "open"
       /\ handler = "onThinking" /\ thinking.indicators = 0 => CanStart(thinking)
       /\ threadId' = IF variant = AgentClientJs /\ tid # 0 THEN tid ELSE threadId
       /\ thinking' = handle(handler, thinking)
       /\ inbound' = [type |-> type, handler |-> handler, thread_id |-> tid]
       /\ received' = IF tid # 0 THEN tid ELSE received
       /\ UNCHANGED <<variant, handlers, socket, stale, isConnected, timers, waiting,
                      wsSent, httpSent, notClient>>

\* agent-client.js sendMessageHttp up to the fetch, lines 108-119: the body
\* carries this.threadId
SendMessageHttp(message) ==
    /\ variant = AgentClientJs
    /\ Len(httpSent) < MaxSent
    /\ httpSent' = Append(httpSent, [message |-> message, thread_id |-> threadId])
    /\ UNCHANGED <<variant, handlers, socket, stale, isConnected, timers, threadId,
                   thinking, waiting, wsSent, inbound, received, notClient>>

\* the reply to an HTTP chat request, lines 121-135: a reply that is not ok
\* throws before the body is read, an ok one stores the thread id it carries
HttpReply(i, ok, tid) ==
    /\ httpSent' = Remove(httpSent, i)
    /\ threadId' = IF ok /\ tid # 0 THEN tid ELSE threadId
    /\ received' = IF ok /\ tid # 0 THEN tid ELSE received
    /\ UNCHANGED <<variant, handlers, socket, stale, isConnected, timers, thinking,
                   waiting, wsSent, inbound, notClient>>

InitClient ==
    /\ ManagerIdle
    /\ UiIdle
    /\ ProcessIdle
    /\ ToolsIdle
    /\ PageIdle
    /\ variant \in {AgentClientJs, AppJs}
    /\ handlers = {}
    /\ socket = "none"
    /\ stale = 0
    /\ isConnected = FALSE
    /\ timers = <<>>
    /\ threadId = 0
    /\ thinking = NotThinking
    /\ waiting = <<>>
    /\ wsSent = <<>>
    /\ inbound = NoMessage
    /\ httpSent = <<>>
    /\ received = 0

NextClient ==
    \/ \E h \in {"onMessage", "onThinking", "onError"} : SetHandler(h)
    \/ InitWebSocket
    \/ SocketOpen
    \/ \E clean \in BOOLEAN : SocketClose(clean)
    \/ \E errored \in BOOLEAN : StaleClose(errored)
    \/ TimerFire
    \/ \E message \in Typed : SendMessage(message)
    \/ Poll
    \/ ServerReceive
    \/ \E type \in MessageTypes, tid \in ThreadIds \cup {0} : Receive(type, tid)

SpecClient == InitClient /\ [][NextClient]_vars

\* timers fire, close events are delivered, and the server accepts connections
SpecClientLive ==
    /\ SpecClient
    /\ WF_vars(TimerFire)
    /\ WF_vars(\E errored \in BOOLEAN : StaleClose(errored))
    /\ SF_vars(SocketOpen)


\* the chat as LaunchChat sets it up, lines 624-652: the three handlers set,
\* initWebSocket still to be called
InitThread ==
    /\ ManagerIdle
    /\ UiIdle
    /\ ProcessIdle
    /\ ToolsIdle
    /\ PageIdle
    /\ variant \in {AgentClientJs, AppJs}
    /\ handlers = {"onMessage", "onThinking", "onError"}
    /\ socket = "none"
    /\ stale = 0
    /\ isConnected = FALSE
    /\ timers = <<>>
    /\ threadId = 0
    /\ thinking = NotThinking
    /\ waiting = <<>>
    /\ wsSent = <<>>
    /\ inbound = NoMessage
    /\ httpSent = <<>>
    /\ received = 0

\* the session of a chat: messages out and in, over the socket and over HTTP
NextThread ==
    \/ InitWebSocket
    \/ SocketOpen
    \/ \E clean \in BOOLEAN : SocketClose(clean)
    \/ \E errored \in BOOLEAN : StaleClose(errored)
    \/ TimerFire
    \/ \E message \in Typed : SendMessage(message)
    \/ Poll
    \/ ServerReceive
    \/ \E type \in MessageTypes, tid \in ThreadIds \cup {0} : Receive(type, tid)
    \/ \E message \in {<<"a">>} : SendMessageHttp(message)
    \/ \E i \in DOMAIN httpSent, ok \in BOOLEAN, tid \in ThreadIds \cup {0} :
         HttpReply(i, ok, tid)

SpecThread == InitThread /\ [][NextThread]_vars

\* ------------------------------------------------------- the app.js page
\* page state no feedback or VersionControl step touches
historyVars == <<versionHistory, saved>>

feedbackVars == <<modal, mainStars>>

\* generateCode, lines 80-116: an empty prompt is refused with an alert, any
\* other shows the loading indicator, clears the output and posts the request
GenerateCode(prompt) ==
    /\ IF trim(prompt) = <<>>
       THEN /\ notice' = "prompt"
            /\ UNCHANGED <<loading, output, requests>>
       ELSE /\ Len(requests) < MaxPending
            /\ loading' = TRUE
            /\ output' = NoOutput
            /\ requests' = Append(requests, [kind |-> "generate", prompt |-> trim(prompt)])
            /\ notice' = "none"
    /\ UNCHANGED <<historyVars, currentRunId, feedbackVars, created, reloading,
                   versions, notPage>>

\* generateCode, lines 117-143: the reply to a generate request; a success
\* carries the generated text, maybe a run id and maybe a version
GenerateReply(i, ok, hasRun, hasVersion) ==
    /\ requests[i].kind = "generate"
    /\ requests' = Remove(requests, i)
    /\ loading' = FALSE
    /\ IF ok
       THEN /\ created < MaxVersions
            /\ created' = created + 1
            /\ output' = [text |-> created + 1, shown |-> TRUE]
            /\ currentRunId' = IF hasRun THEN created + 1 ELSE 0
            /\ versionHistory' =
                 IF hasVersion THEN addToVersionHistory(versionHistory, created + 1)
                 ELSE versionHistory
            /\ saved' = IF hasVersion THEN versionHistory' ELSE saved
            /\ notice' = "none"
       ELSE /\ notice' = "error"
            /\ UNCHANGED <<created, output, currentRunId, historyVars>>
    /\ UNCHANGED <<feedbackVars, reloading, versions, notPage>>

\* uploadScreenshot, lines 209-238
UploadScreenshot(files) ==
    /\ IF upload_rejects(files) # "none"
       THEN /\ notice' = upload_rejects(files)
            /\ UNCHANGED <<loading, output, requests>>
       ELSE /\ Len(requests) < MaxPending
            /\ loading' = TRUE
            /\ output' = NoOutput
            /\ requests' = Append(requests, [kind |-> "screenshot"])
            /\ notice' = "none"
    /\ UNCHANGED <<historyVars, currentRunId, feedbackVars, created, reloading,
                   versions, notPage>>

\* uploadScreenshot, lines 239-270: the reply to the upload
UploadReply(i, ok) ==
    /\ requests[i].kind = "screenshot"
    /\ requests' = Remove(requests, i)
    /\ loading' = FALSE
    /\ IF ok
       THEN /\ created < MaxVersions
            /\ created' = created + 1
            /\ output' = [text |-> created + 1, shown |-> TRUE]
            /\ versionHistory' = addToVersionHistory(versionHistory, created + 1)
            /\ saved' = versionHistory'
            /\ notice' = "none"
       ELSE /\ notice' = "error"
            /\ UNCHANGED <<created, output, historyVars>>
    /\ UNCHANGED <<currentRunId, feedbackVars, reloading, versions, notPage>>

\* restoreVersion, lines 276-291, from the Restore button of a listed version
RestoreVersion(tag, confirmed) ==
    /\ tag \in SeqToSet(versionHistory)
    /\ IF confirmed
       THEN /\ Len(requests) < MaxPending
            /\ loading' = TRUE
            /\ requests' = Append(requests, [kind |-> "restore", tag |-> tag])
       ELSE UNCHANGED <<loading, requests>>
    /\ notice' = "none"
    /\ UNCHANGED <<historyVars, currentRunId, output, feedbackVars, created,
                   reloading, versions, notPage>>

\* variant: a successful restore drops the versions listed before the
\* restored one
RestoreReply_truncate(i, ok) ==
    /\ requests[i].kind = "restore"
    /\ requests' = Remove(requests, i)
    /\ loading' = FALSE
    /\ reloading' = (reloading \/ ok)
    /\ notice' = IF ok THEN "restored" ELSE "error"
    /\ versionHistory' =
         IF ok THEN SelectSeq(versionHistory, LAMBDA v : v <= requests[i].tag)
         ELSE versionHistory
    /\ UNCHANGED <<saved, currentRunId, output, feedbackVars, created,
                   versions, notPage>>

\* restoreVersion, lines 293-314: the reply to the restore request
RestoreReply(i, ok) ==
    /\ requests[i].kind = "restore"
    /\ requests' = Remove(requests, i)
    /\ loading' = FALSE
    /\ reloading' = (reloading \/ ok)
    /\ notice' = IF ok THEN "restored" ELSE "error"
    /\ UNCHANGED <<historyVars, currentRunId, output, feedbackVars, created,
                   versions, notPage>>

\* the chat right after the LaunchChat constructor, lines 624-652
ChatStart ==
    /\ variant = AppJs
    /\ handlers = {"onMessage", "onThinking", "onError"}
    /\ socket = "connecting"
    /\ stale = 0
    /\ isConnected = FALSE
    /\ timers = <<>>
    /\ threadId = 0
    /\ thinking = NotThinking
    /\ waiting = <<>>
    /\ wsSent = <<>>
    /\ inbound = NoMessage
    /\ httpSent = <<>>
    /\ received = 0

\* the page right after DOMContentLoaded, lines 8-72: loadVersions is out
PageStart ==
    /\ versionHistory = <<>>
    /\ currentRunId = 0
    /\ loading = FALSE
    /\ output = NoOutput
    /\ modal = NoModal
    /\ mainStars = 0
    /\ requests = <<[kind |-> "versions"]>>
    /\ reloading = FALSE
    /\ notice = "none"

\* the browser reloads the page: the scripts run again from the top, the
\* stored item and the server keep what they have
Reload ==
    /\ reloading
    /\ variant' = AppJs
    /\ handlers' = {"onMessage", "onThinking", "onError"}
    /\ socket' = "connecting"
    /\ stale' = 0
    /\ isConnected' = FALSE
    /\ timers' = <<>>
    /\ threadId' = 0
    /\ thinking' = NotThinking
    /\ waiting' = <<>>
    /\ wsSent' = <<>>
    /\ inbound' = NoMessage
    /\ httpSent' = <<>>
    /\ received' = 0
    /\ versionHistory' = <<>>
    /\ currentRunId' = 0
    /\ loading' = FALSE
    /\ output' = NoOutput
    /\ modal' = NoModal
    /\ mainStars' = 0
    /\ requests' = <<[kind |-> "versions"]>>
    /\ reloading' = FALSE
    /\ notice' = "none"
    /\ UNCHANGED <<saved, created, versions, managerVars, processVars, toolVars,
                   callVars, uiVars>>

\* viewVersion, lines 581-588
ViewVersion(timestamp) ==
    /\ Len(requests) < MaxPending
    /\ requests' = Append(requests, [kind |-> "view", timestamp |-> timestamp])
    /\ notice' = "none"
    /\ UNCHANGED <<historyVars, currentRunId, loading, output, feedbackVars, created,
                   reloading, versions, notPage>>

\* viewVersion, lines 589-606: the reply
ViewReply(i, ok, hasRun) ==
    /\ requests[i].kind = "view"
    /\ requests' = Remove(requests, i)
    /\ IF ok
       THEN /\ output' = [text |-> requests[i].timestamp, shown |-> TRUE]
            /\ currentRunId' = IF hasRun THEN requests[i].timestamp ELSE 0
            /\ notice' = "none"
       ELSE /\ notice' = "error"
            /\ UNCHANGED <<output, currentRunId>>
    /\ UNCHANGED <<historyVars, loading, feedbackVars, created, reloading, versions,
                   notPage>>

\* loadVersions, lines 509-519: the reply; a failed one is logged only
LoadVersionsReply(i, ok) ==
    /\ requests[i].kind = "versions"
    /\ requests' = Remove(requests, i)
    /\ versionHistory' =
         IF ok /\ Len(ServerVersions(created)) > 0 THEN ServerVersions(created)
         ELSE versionHistory
    /\ notice' = "none"
    /\ UNCHANGED <<saved, currentRunId, loading, output, feedbackVars, created,
                   reloading, versions, notPage>>


\* showFeedbackModal, lines 342-357
ShowFeedbackModal ==
    /\ IF currentRunId = 0
       THEN /\ notice' = "norun"
            /\ UNCHANGED modal
       ELSE /\ modal' = [shown |-> TRUE, stars |-> 0]
            /\ notice' = "none"
    /\ UNCHANGED <<historyVars, currentRunId, loading, output, mainStars, requests,
                   created, reloading, versions, notPage>>

\* the close button of the modal, lines 21-24
CloseModal ==
    /\ modal.shown
    /\ modal' = [modal EXCEPT !.shown = FALSE]
    /\ notice' = "none"
    /\ UNCHANGED <<historyVars, currentRunId, loading, output, mainStars, requests,
                   created, reloading, versions, notPage>>

\* setupStarRating, lines 459-469: a click on the star of the given value in
\* the modal
ClickStar(value) ==
    /\ modal.shown
    /\ modal' = [modal EXCEPT !.stars = value]
    /\ notice' = "none"
    /\ UNCHANGED <<historyVars, currentRunId, loading, output, mainStars, requests,
                   created, reloading, versions, notPage>>

\* setupStarRating, lines 459-469: a click on a star of #feedback-stars
ClickMainStar(value) ==
    /\ output.shown
    /\ mainStars' = value
    /\ notice' = "none"
    /\ UNCHANGED <<historyVars, currentRunId, loading, output, modal, requests,
                   created, reloading, versions, notPage>>

\* submitFeedback, lines 362-392, from the button inside the modal
SubmitFeedback ==
    /\ modal.shown
    /\ notice' = feedback_rejects(currentRunId, modal.stars)
    /\ IF feedback_rejects(currentRunId, modal.stars) # "none"
       THEN UNCHANGED requests
       ELSE /\ Len(requests) < MaxPending
            /\ requests' = Append(requests,
                 [kind |-> "feedback", run_id |-> currentRunId, score |-> modal.stars])
    /\ UNCHANGED <<historyVars, currentRunId, loading, output, feedbackVars, created,
                   reloading, versions, notPage>>

\* submitFeedback, lines 393-413, and updateMainViewStars: the reply
FeedbackReply(i, ok) ==
    /\ requests[i].kind = "feedback"
    /\ requests' = Remove(requests, i)
    /\ IF ok
       THEN /\ modal' = [modal EXCEPT !.shown = FALSE]
            /\ mainStars' = requests[i].score
            /\ notice' = "thanks"
       ELSE /\ notice' = "error"
            /\ UNCHANGED feedbackVars
    /\ UNCHANGED <<historyVars, currentRunId, loading, output, created, reloading,
                   versions, notPage>>

\* LaunchChat.viewVersion and LaunchChat.restoreVersion, lines 905-939: both
\* fetch the version
ChatVersion(op, timestamp) ==
    /\ Len(requests) < MaxPending
    /\ requests' = Append(requests, [kind |-> op, timestamp |-> timestamp])
    /\ notice' = "none"
    /\ UNCHANGED <<historyVars, currentRunId, loading, output, feedbackVars, created,
                   reloading, versions, notPage>>

\* the reply: chat messages with the version's code, or with the error
ChatVersionReply(i, ok) ==
    /\ requests[i].kind \in {"chat_view", "chat_restore"}
    /\ requests' = Remove(requests, i)
    /\ notice' = IF ok THEN "none" ELSE "error"
    /\ UNCHANGED <<historyVars, currentRunId, loading, output, feedbackVars, created,
                   reloading, versions, notPage>>

\* VersionControl.loadVersions, lines 36-40, on mount
VcLoadVersions ==
    /\ Len(requests) < MaxPending
    /\ requests' = Append(requests, [kind |-> "vc_versions"])
    /\ notice' = "none"
    /\ UNCHANGED <<historyVars, currentRunId, loading, output, feedbackVars, created,
                   reloading, versions, notPage>>

\* VersionControl.loadVersions, lines 40-51: the reply
VcVersionsReply(i, ok) ==
    /\ requests[i].kind = "vc_versions"
    /\ requests' = Remove(requests, i)
    /\ versions' = IF ok THEN ServerVersions(created) ELSE versions
    /\ notice' = IF ok THEN "none" ELSE "error"
    /\ UNCHANGED <<historyVars, currentRunId, loading, output, feedbackVars, created,
                   reloading, notPage>>

\* VersionControl.restoreVersion, lines 80-89, for a listed version
VcRestoreVersion(version) ==
    /\ version \in SeqToSet(versions)
    /\ Len(requests) < MaxPending
    /\ requests' = Append(requests, [kind |-> "vc_restore", versionId |-> version])
    /\ notice' = "none"
    /\ UNCHANGED <<historyVars, currentRunId, loading, output, feedbackVars, created,
                   reloading, versions, notPage>>

\* VersionControl.restoreVersion, lines 90-102: after a success loadVersions
\* runs again, a failure shows a toast
VcRestoreReply(i, ok) ==
    /\ requests[i].kind = "vc_restore"
    /\ requests' = IF ok THEN Append(Remove(requests, i), [kind |-> "vc_versions"])
                   ELSE Remove(requests, i)
    /\ notice' = IF ok THEN "none" ELSE "error"
    /\ UNCHANGED <<historyVars, currentRunId, loading, output, feedbackVars, created,
                   reloading, versions, notPage>>

InitApp ==
    /\ ManagerIdle
    /\ UiIdle
    /\ ProcessIdle
    /\ ToolsIdle
    /\ ChatStart
    /\ PageStart
    /\ saved = <<>>
    /\ created = 0
    /\ versions = <<>>

\* the version history of the page, of the chat and of VersionControl
NextHistory ==
    \/ \E prompt \in Typed : GenerateCode(prompt)
    \/ \E i \in DOMAIN requests, ok, hasRun, hasVersion \in BOOLEAN :
         GenerateReply(i, ok, hasRun, hasVersion)
    \/ \E files \in FileLists : UploadScreenshot(files)
    \/ \E i \in DOMAIN requests, ok \in BOOLEAN : UploadReply(i, ok)
    \/ \E tag \in 1..MaxVersions, confirmed \in BOOLEAN : RestoreVersion(tag, confirmed)
    \/ \E i \in DOMAIN requests, ok \in BOOLEAN : RestoreReply(i, ok)
    \/ Reload
    \/ \E timestamp \in 1..created : ViewVersion(timestamp)
    \/ \E i \in DOMAIN requests, ok, hasRun \in BOOLEAN : ViewReply(i, ok, hasRun)
    \/ \E i \in DOMAIN requests, ok \in BOOLEAN : LoadVersionsReply(i, ok)
    \/ \E op \in {"chat_view", "chat_restore"}, timestamp \in 1..created :
         ChatVersion(op, timestamp)
    \/ \E i \in DOMAIN requests, ok \in BOOLEAN : ChatVersionReply(i, ok)
    \/ VcLoadVersions
    \/ \E i \in DOMAIN requests, ok \in BOOLEAN : VcVersionsReply(i, ok)
    \/ \E version \in 1..MaxVersions : VcRestoreVersion(version)
    \/ \E i \in DOMAIN requests, ok \in BOOLEAN : VcRestoreReply(i, ok)

SpecHistory == InitApp /\ [][NextHistory]_vars

\* the feedback on a run: what sets the run id, the modal, the request
NextFeedback ==
    \/ \E prompt \in Typed : GenerateCode(prompt)
    \/ \E i \in DOMAIN requests, ok, hasRun, hasVersion \in BOOLEAN :
         GenerateReply(i, ok, hasRun, hasVersion)
    \/ \E timestamp \in 1..created : ViewVersion(timestamp)
    \/ \E i \in DOMAIN requests, ok, hasRun \in BOOLEAN : ViewReply(i, ok, hasRun)
    \/ \E i \in DOMAIN requests, ok \in BOOLEAN : LoadVersionsReply(i, ok)
    \/ ShowFeedbackModal
    \/ CloseModal
    \/ \E value \in 1..Stars : ClickStar(value)
    \/ \E value \in 1..Stars : ClickMainStar(value)
    \/ SubmitFeedback
    \/ \E i \in DOMAIN requests, ok \in BOOLEAN : FeedbackReply(i, ok)

SpecFeedback == InitApp /\ [][NextFeedback]_vars

\* the inputs of the page and of the chat: prompt, upload, chat message
NextInput ==
    \/ \E prompt \in Typed : GenerateCode(prompt)
    \/ \E i \in DOMAIN requests, ok, hasRun, hasVersion \in BOOLEAN :
         GenerateReply(i, ok, hasRun, hasVersion)
    \/ \E files \in FileLists : UploadScreenshot(files)
    \/ \E i \in DOMAIN requests, ok \in BOOLEAN : UploadReply(i, ok)
    \/ \E i \in DOMAIN requests, ok \in BOOLEAN : LoadVersionsReply(i, ok)
    \/ \E message \in Typed : SendMessage(message)
    \/ SocketOpen
    \/ ServerReceive
    \/ \E type \in MessageTypes, tid \in ThreadIds \cup {0} : Receive(type, tid)

SpecInput == InitApp /\ [][NextInput]_vars


\* ------------------------------------------------- the preview components
\* the component after its first render and effect, with the code prop c
InitPreview ==
    /\ QuizIdle
    /\ AnimationIdle
    /\ ShortcutsIdle
    /\ ManagerIdle
    /\ ProcessIdle
    /\ ToolsIdle
    /\ ClientIdle
    /\ PageIdle
    /\ component \in {LivePreviewTsx, PreviewTsx}
    /\ code \in Codes
    /\ preview = NoPreview
    /\ previewLoading = effect_requests(component, code)
    /\ previewError = FALSE
    /\ previewRequests = IF effect_requests(component, code) THEN <<code>> ELSE <<>>

\* the parent renders the component with another code: the effect runs again
\* and, unless it returns early, generatePreview sets loading, clears the
\* error and posts the code
ChangeCode(c) ==
    /\ c # code
    /\ code' = c
    /\ IF effect_requests(component, c)
       THEN /\ Len(previewRequests) < MaxPreviews
            /\ previewRequests' = Append(previewRequests, c)
            /\ previewLoading' = TRUE
            /\ previewError' = FALSE
       ELSE UNCHANGED <<previewRequests, previewLoading, previewError>>
    /\ UNCHANGED <<component, preview>>

\* the fetch of request i settles: the try body, the catch, the finally
PreviewReply(i, ok) ==
    /\ previewRequests' = Remove(previewRequests, i)
    /\ preview' = preview_reply(preview, previewRequests[i], ok)
    /\ previewError' = IF ok THEN previewError ELSE TRUE
    /\ previewLoading' = FALSE
    /\ UNCHANGED <<component, code>>

NextPreview ==
    \/ /\ \E c \in Codes : ChangeCode(c)
       /\ UNCHANGED notPreview
    \/ /\ \E i \in DOMAIN previewRequests, ok \in BOOLEAN : PreviewReply(i, ok)
       /\ UNCHANGED notPreview

SpecPreview == InitPreview /\ [][NextPreview]_vars

\* ---------------------------------------------------------------- the Quiz
\* the quiz after its first render, for a list of one or more questions
InitQuiz ==
    /\ ManagerIdle
    /\ ProcessIdle
    /\ ToolsIdle
    /\ ClientIdle
    /\ PageIdle
    /\ PreviewIdle
    /\ AnimationIdle
    /\ ShortcutsIdle
    /\ questions \in UNION {QuestionLists(n) : n \in 1..MaxQuestions}
    /\ currentQuestion = 0
    /\ answers = <<>>
    /\ showResults = FALSE
    /\ selectedAnswer = NoAnswer
    /\ showExplanation = FALSE
    /\ completed = <<>>

\* handleAnswer: the user picks an option of the question shown
HandleAnswer(answer) ==
    /\ ~showResults
    /\ selectedAnswer' = answer
    /\ UNCHANGED <<questions, currentQuestion, answers, showResults, showExplanation,
                   completed>>

\* handleNext, lines 34-51
HandleNext ==
    /\ ~showResults
    /\ IF selectedAnswer = NoAnswer
       THEN UNCHANGED <<answers, currentQuestion, selectedAnswer, showExplanation,
                        showResults, completed>>
       ELSE /\ answers' = Append(answers, selectedAnswer)
            /\ IF currentQuestion < Len(questions) - 1
               THEN /\ currentQuestion' = currentQuestion + 1
                    /\ selectedAnswer' = NoAnswer
                    /\ showExplanation' = FALSE
                    /\ UNCHANGED <<showResults, completed>>
               ELSE /\ completed' = Append(completed,
                                           reduce_score(answers', questions, 1))
                    /\ showResults' = TRUE
                    /\ UNCHANGED <<currentQuestion, selectedAnswer, showExplanation>>
    /\ UNCHANGED questions

\* the Show Explanation button, lines 110-118: rendered for a question with an
\* explanation not yet shown, enabled once an option is selected
ShowExplanation ==
    /\ ~showResults
    /\ questions[currentQuestion + 1].explanation
    /\ ~showExplanation
    /\ selectedAnswer # NoAnswer
    /\ showExplanation' = TRUE
    /\ UNCHANGED <<questions, currentQuestion, answers, showResults, selectedAnswer,
                   completed>>

\* the Retry Quiz button of the results card, lines 67-72
Retry ==
    /\ showResults
    /\ Len(completed) < MaxAttempts
    /\ currentQuestion' = 0
    /\ answers' = <<>>
    /\ showResults' = FALSE
    /\ selectedAnswer' = NoAnswer
    /\ showExplanation' = retry_explanation(showExplanation)
    /\ UNCHANGED <<questions, completed>>

NextQuiz ==
    \/ /\ \E answer \in 0..(MaxOptions - 1) : HandleAnswer(answer)
       /\ UNCHANGED notQuiz
    \/ /\ HandleNext
       /\ UNCHANGED notQuiz
    \/ /\ ShowExplanation
       /\ UNCHANGED notQuiz
    \/ /\ Retry
       /\ UNCHANGED notQuiz

SpecQuiz == InitQuiz /\ [][NextQuiz]_vars

\* ------------------------------------------------------ the animation hooks
\* the component after its first render and effect: one frame requested
InitAnimation ==
    /\ ManagerIdle
    /\ ProcessIdle
    /\ ToolsIdle
    /\ ClientIdle
    /\ PageIdle
    /\ PreviewIdle
    /\ QuizIdle
    /\ ShortcutsIdle
    /\ hook \in {UseAnimationFrame, UseSmoothAnimation}
    /\ mounted = TRUE
    /\ isActive = TRUE
    /\ frames = <<"animate">>
    /\ previousTimeRef = FALSE
    /\ startTimeRef = FALSE
    /\ elapsed = 0
    /\ progress = 0
    /\ needsRender = FALSE
    /\ finished = FALSE
    /\ called = FALSE
    /\ tick = FALSE
    /\ control = "none"

\* the browser runs an animation frame: time has moved on by one frame, every
\* callback requested for the frame runs
AnimationFrame ==
    LET now == IF startTimeRef THEN Min(elapsed + 1, MaxFrames) ELSE 0
        st == run_frame(hook, isActive, frames, FrameState(now))
    IN /\ elapsed' = now
       /\ frames' = st.requested
       /\ previousTimeRef' = st.previousTimeRef
       /\ startTimeRef' = st.startTimeRef
       /\ progress' = st.progress
       /\ needsRender' = (mounted /\ st.needsRender)
       /\ finished' = st.finished
       /\ called' = st.called
       /\ tick' = ~tick
       /\ UNCHANGED <<hook, mounted, isActive, control>>

\* the re-render a progress update causes: the callback is a new function, so
\* the effect of lines 17-37 is cleaned up and runs again
Render ==
    /\ mounted
    /\ needsRender
    /\ needsRender' = FALSE
    /\ isActive' = FALSE
    /\ frames' = Append(cancel(frames), "animate")
    /\ UNCHANGED <<hook, mounted, previousTimeRef, startTimeRef, elapsed, progress,
                   finished, called, tick, control>>

\* pause(), lines 40-42
Pause ==
    /\ mounted
    /\ isActive' = FALSE
    /\ control' = "paused"
    /\ UNCHANGED <<hook, mounted, frames, previousTimeRef, startTimeRef, elapsed,
                   progress, needsRender, finished, called, tick>>

\* resume(), lines 43-51
Resume ==
    /\ mounted
    /\ Len(frames) < MaxScheduled
    /\ isActive' = TRUE
    /\ frames' = Append(frames, "resumed")
    /\ control' = IF control = "none" THEN "none" ELSE "resumed"
    /\ UNCHANGED <<hook, mounted, previousTimeRef, startTimeRef, elapsed, progress,
                   needsRender, finished, called, tick>>

\* the component unmounts: the cleanup of the effect, lines 31-36
Unmount ==
    /\ mounted
    /\ mounted' = FALSE
    /\ isActive' = FALSE
    /\ frames' = cancel(frames)
    /\ needsRender' = FALSE
    /\ UNCHANGED <<hook, previousTimeRef, startTimeRef, elapsed, progress, finished,
                   called, tick, control>>

NextAnimation ==
    \/ /\ AnimationFrame
       /\ UNCHANGED notAnimation
    \/ /\ Render
       /\ UNCHANGED notAnimation
    \/ /\ Pause
       /\ UNCHANGED notAnimation
    \/ /\ Resume
       /\ UNCHANGED notAnimation
    \/ /\ Unmount
       /\ UNCHANGED notAnimation

SpecAnimation == InitAnimation /\ [][NextAnimation]_vars

\* the browser keeps running animation frames, React renders what is due
SpecAnimationLive ==
    /\ SpecAnimation
    /\ WF_vars(AnimationFrame /\ UNCHANGED notAnimation)
    /\ WF_vars(Render /\ UNCHANGED notAnimation)

\* ------------------------------------------------------------ useShortcuts
\* the hook after its first render and effect, for the shortcuts it was given
InitShortcuts ==
    /\ ManagerIdle
    /\ ProcessIdle
    /\ ToolsIdle
    /\ ClientIdle
    /\ PageIdle
    /\ PreviewIdle
    /\ QuizIdle
    /\ AnimationIdle
    /\ shortcuts \in ShortcutLists(MaxShortcuts)
    /\ modalOpen = FALSE
    /\ keyEvent = NoEvent
    /\ ran = <<>>

\* a keydown event reaches the window listener
KeyDown(event) ==
    LET handled == handleKeyDown(shortcuts, event, modalOpen)
    IN /\ keyEvent' = event
       /\ modalOpen' = handled.modalOpen
       /\ ran' = handled.ran
       /\ UNCHANGED shortcuts

\* the component closes the modal with the setModalOpen it was handed
SetModalOpen(open) ==
    /\ modalOpen # open
    /\ modalOpen' = open
    /\ UNCHANGED <<shortcuts, keyEvent, ran>>

NextShortcuts ==
    \/ /\ \E event \in KeyboardEvents : KeyDown(event)
       /\ UNCHANGED notShortcuts
    \/ /\ \E open \in BOOLEAN : SetModalOpen(open)
       /\ UNCHANGED notShortcuts

SpecShortcuts == InitShortcuts /\ [][NextShortcuts]_vars

\* ================================================================ claims
KeyA == <<97>>
KeyB == <<98>>
KeyC == <<99>>

\* C1: two get_agent calls with the same session id return the same agent
\* unless the id was evicted after the earlier agent was registered; the agent
\* returned for an id changes only after that id was evicted.
C1_HandleStable ==
    [][\A k \in SessionKeys :
         (issued[k] # 0 /\ issued'[k] # issued[k]) => evictedSince[k]]_vars

\* a second call on a live id got the agent of the first, in a run that evicted
C1_Witness ==
    /\ last.hit
    /\ last.agent = issued[last.id]
    /\ \E k \in SessionKeys : evictedSince[k] /\ issued[k] # 0

\* C2: after every get_agent call the table holds at most max_active_agents
\* sessions, and exactly that many when the call ran the eviction.
C2_Ceiling ==
    /\ Len(active_agents) <= max_active_agents
    /\ (~last.hit /\ Len(last.before) > max_active_agents)
         => Len(active_agents) = max_active_agents

C2_Witness ==
    /\ ~last.hit
    /\ Len(last.before) > max_active_agents
    /\ last.evicted # {}
    /\ Len(active_agents) = max_active_agents

C4_NewKeyLive ==
    (last.id # None /\ ~last.hit) =>
      /\ last.id \notin last.evicted
      /\ has_agent(active_agents, last.id)
      /\ Lookup(active_agents, last.id) = last.agent

\* C5: get_agent on a live session id returns the registered agent and leaves
\* the table as it is: nothing is constructed, no memory is looked up, nothing
\* is evicted.
C5_HitLeavesTable ==
    [][(\E sid \in SessionKeys :
          /\ Contains(active_agents, sid)
          /\ \/ GetAgent(sid, sid)
             \/ \E cb \in BOOLEAN : ExecuteStart(sid, sid, cb))
       => /\ active_agents' = active_agents
          /\ nextAgent' = nextAgent
          /\ last'.hit
          /\ ~last'.memory
          /\ last'.evicted = {}
          /\ last'.agent = Lookup(active_agents, last'.id)]_vars

\* a hit on a full table
C5_Witness ==
    /\ last.hit
    /\ ~last.memory
    /\ Len(active_agents) = max_active_agents
    /\ Lookup(active_agents, last.id) = last.agent
    /\ nextAgent > max_active_agents

\* C6: a session leaves the table only in the eviction of a get_agent call
\* that created a session; no step of an execute_agent run, failing or not,
\* and no get_agent hit removes or replaces an entry.
C6_OnlyCapacityEviction ==
    [][(\E i \in 1..Len(active_agents) :
          \/ ~Contains(active_agents', active_agents[i].id)
          \/ Lookup(active_agents', active_agents[i].id) # active_agents[i].agent)
       => /\ nextAgent' = nextAgent + 1
          /\ ~last'.hit
          /\ Len(last'.before) > max_active_agents
          /\ (DictKeys(active_agents) \ DictKeys(active_agents')) \subseteq last'.evicted
          /\ \A k \in DictKeys(active_agents) \cap DictKeys(active_agents') :
               Lookup(active_agents', k) = Lookup(active_agents, k)]_vars

\* a failed run whose session is still live, in a run that evicted
C6_Witness ==
    /\ call.pc = "returned"
    /\ IsError(call.result)
    /\ Contains(active_agents, call.session_id)
    /\ Lookup(active_agents, call.session_id) = call.agent
    /\ \E k \in SessionKeys : evictedSince[k]

\* C7: execute_agent never raises to its caller: every internal failure,
\* the creation of the session's agent included, ends in a returned result
\* with error = true, a message in output and an empty tool_usage.
C7_NeverRaises ==
    /\ call.pc # "raised"
    /\ (call.pc = "returned" /\ IsError(call.result))
         => (call.result.output # <<>> /\ call.result.tool_usage = <<>>)

\* C8 as stated: whenever execute_agent is called with a streaming callback,
\* every token generated so far has been passed to it, in generation order,
\* and all of them by the time the call has returned.
C8_CallbackGetsEveryToken ==
    (call.callback /\ call.pc \in {"invoking", "returned"})
      => call.delivered = call.generated

\* C8 amended: the same, for a configuration with enable_streaming set.
C8_StreamingEnabled ==
    (call.callback /\ enable_streaming /\ call.pc \in {"invoking", "returned"})
      => call.delivered = call.generated

C8_Witness ==
    /\ call.callback
    /\ enable_streaming
    /\ call.pc = "returned"
    /\ Len(call.delivered) >= 2
    /\ call.delivered[1] # call.delivered[2]
    /\ call.delivered = call.generated

\* C9: for a successful call with a streaming callback (streaming enabled),
\* the delivered tokens, concatenated in delivery order, equal the output of
\* the returned result.
C9_StreamEqualsOutput ==
    (call.pc = "returned" /\ ~IsError(call.result) /\ call.callback /\ enable_streaming)
      => Concat(call.delivered) = call.result.output

\* C10: every output execute_agent returns, on the success path and on the
\* soft-fail path, is a text that went through sanitize_output: the sanitizer
\* leaves it as it is.
C10_OutputSanitized ==
    call.pc = "returned" => call.result.output = sanitize_output(call.result.output)


\* C11: the post-processor's tool_usage list holds exactly one record
\* {tool, input, output} per (tool invocation, tool output) pair of the raw
\* agent result, in the order of the pairs in the raw result.
C11_ToolUsageInOrder ==
    processed.status = "returned" =>
        LET steps == Get(raw_result, "intermediate_steps", <<>>)
            usage == processed.result.tool_usage
        IN /\ Len(usage) = Len(steps)
           /\ \A i \in 1..Len(steps) :
                /\ DOMAIN usage[i] = {"tool", "input", "output"}
                /\ usage[i].tool = steps[i][1].tool
                /\ usage[i].input = steps[i][1].tool_input
                /\ usage[i].output = steps[i][2]

C11_Witness ==
    /\ processed.status = "returned"
    /\ Len(processed.result.tool_usage) = 2
    /\ processed.result.tool_usage[1].tool # processed.result.tool_usage[2].tool

\* the output text or the intermediate steps are missing or ill-shaped
Malformed(raw) ==
    \/ "output" \notin DOMAIN raw
    \/ "intermediate_steps" \notin DOMAIN raw
    \/ \E i \in DOMAIN raw.intermediate_steps : ~StepReadable(raw.intermediate_steps[i])

\* the results execute returns for an upstream (model or service) failure
UpstreamFailures ==
    {execute_except(active_agents, None, m).result : m \in ErrorMessages}

\* C12: for a malformed raw agent result post-processing signals a
\* MalformedResponse condition instead of substituting a default value, and
\* what execute returns for it differs from what it returns for an upstream
\* failure.
C12_MalformedSignalled ==
    (processed # NotProcessed /\ Malformed(raw_result)) =>
        /\ processed.status = "raised"
        /\ processed.result \notin UpstreamFailures

\* C13: the tool set bound to an agent is the registry's content at the
\* moment the agent is constructed; registering a tool later never changes
\* the tool set of an agent that already exists.
C13_ToolsBoundAtConstruction ==
    [][/\ \A i \in DOMAIN agent_tools : agent_tools'[i] = agent_tools[i]
       /\ Len(agent_tools') > Len(agent_tools) =>
            agent_tools'[Len(agent_tools')] = tool_registry]_vars

C13_Witness ==
    /\ Len(agent_tools) >= 2
    /\ agent_tools[1] # tool_registry
    /\ agent_tools[1] # agent_tools[Len(agent_tools)]
    /\ agent_tools[Len(agent_tools)] = tool_registry

\* the list without the entries for one version
RECURSIVE Without(_, _)
Without(history, version) ==
    IF history = <<>> THEN <<>>
    ELSE IF Head(history) = version THEN Without(Tail(history), version)
    ELSE <<Head(history)>> \o Without(Tail(history), version)

\* C14: after a successful generation the version it added is at index 0 of
\* the client's version history and all earlier versions keep their relative
\* order, so the history is ordered most recently created first.
C14_NewestFirst ==
    [][(created' = created + 1 /\ versionHistory' # versionHistory) =>
          /\ versionHistory'[1] = created'
          /\ Without(versionHistory', created') = versionHistory]_vars

C14_Witness ==
    /\ Len(versionHistory) > 2
    /\ versionHistory[1] = 2
    /\ versionHistory[Len(versionHistory)] = 1

\* list is the end of longer, entry for entry
IsSuffix(list, longer) ==
    /\ Len(list) <= Len(longer)
    /\ SubSeq(longer, Len(longer) - Len(list) + 1, Len(longer)) = list

\* a step of restoring or viewing a version: the call or the reply, on the
\* page, in the chat and in VersionControl
RestoreOrViewStep ==
    \/ \E tag \in 1..MaxVersions, confirmed \in BOOLEAN : RestoreVersion(tag, confirmed)
    \/ \E i \in DOMAIN requests, ok \in BOOLEAN : RestoreReply(i, ok)
    \/ \E timestamp \in 1..created : ViewVersion(timestamp)
    \/ \E i \in DOMAIN requests, ok, hasRun \in BOOLEAN : ViewReply(i, ok, hasRun)
    \/ \E op \in {"chat_view", "chat_restore"}, timestamp \in 1..created :
         ChatVersion(op, timestamp)
    \/ \E i \in DOMAIN requests, ok \in BOOLEAN : ChatVersionReply(i, ok)
    \/ \E version \in 1..MaxVersions : VcRestoreVersion(version)
    \/ \E i \in DOMAIN requests, ok \in BOOLEAN : VcRestoreReply(i, ok)

Entries(history, version) ==
    Cardinality({i \in DOMAIN history : history[i] = version})

\* C16: a successful generation adds exactly one entry for its version to the
\* version history, in memory and in the stored copy: the history never
\* holds two entries for the same generation.
C16_OneEntryPerGeneration ==
    \A version \in 1..MaxVersions :
        /\ Entries(versionHistory, version) <= 1
        /\ Entries(saved, version) <= 1

\* C17: a feedback request is only ever sent with a score from 1 to 5 and the
\* run id of a prior generation; submitFeedback with no star selected or with
\* no current run id sends no request and records nothing.
C17_FeedbackGuarded ==
    /\ [](\A i \in DOMAIN requests :
            requests[i].kind = "feedback" =>
                /\ requests[i].score \in 1..5
                /\ requests[i].run_id \in 1..created)
    /\ [][(SubmitFeedback /\ (modal.stars = 0 \/ currentRunId = 0)) =>
            UNCHANGED <<requests, modal, mainStars>>]_vars

C17_Witness ==
    /\ notice = "rating"
    /\ modal.shown
    /\ currentRunId # 0
    /\ requests = <<>>

\* the text is empty or all spaces
Blank(text) == \A i \in DOMAIN text : text[i] = " "

\* no file is selected, or the first one has no image type
NoImage(files) ==
    \/ Len(files) = 0
    \/ Len(files[1].type) < 6
    \/ \E i \in 1..6 : files[1].type[i] # ImagePrefix[i]

\* C18: a prompt or chat message that is empty after trimming, and an upload
\* whose file is missing or not an image, is rejected before any request is
\* issued: nothing is sent, and the loading and thinking indicators, the
\* displayed output and the version history stay as they are.
C18_RejectedBeforeRequest ==
    [][(\/ \E prompt \in Typed : Blank(prompt) /\ GenerateCode(prompt)
        \/ \E message \in Typed : Blank(message) /\ SendMessage(message)
        \/ \E files \in FileLists : NoImage(files) /\ UploadScreenshot(files)) =>
          UNCHANGED <<requests, wsSent, waiting, loading, thinking, output,
                      versionHistory, saved>>]_vars

C18_Witness ==
    /\ notice = "image"
    /\ output.shown
    /\ thinking.indicators > 0

\* the client handler that matches a type tag of the realtime channel
Matching(type) ==
    CASE type = "thinking" -> "onThinking"
      [] type = "response" -> "onMessage"
      [] type = "error" -> "onError"

\* C19: every inbound message tagged "thinking", "response" or "error" goes
\* to exactly the matching handler (onThinking, onMessage, onError) when that
\* handler is set, and to no other handler; a "response" therefore reaches
\* the handler that ends the thinking state.
C19_MatchingHandler ==
    [][\A type \in {"thinking", "response", "error"}, tid \in ThreadIds \cup {0} :
          Receive(type, tid) =>
              /\ inbound'.handler =
                    IF Matching(type) \in handlers THEN Matching(type) ELSE "none"
              /\ (type = "response" /\ "onMessage" \in handlers) =>
                    thinking' = stopThinking(thinking)]_vars

\* C20: whenever the client's socket closes a reconnect is scheduled after the
\* fixed delay of 3 seconds, again after every further close, so that with a
\* server that accepts connections the client is eventually connected again.
C20_Reconnects ==
    /\ [][(socket # "closed" /\ socket' = "closed") =>
            timers' = Append(timers, 3000)]_vars
    /\ (socket = "closed") ~> (socket = "open")

C20_Witness ==
    /\ socket = "closed"
    /\ timers = <<3000>>
    /\ inbound.type # "none"

\* the agent objects in use for a session id: the one registered in the table
\* and those driving a suspended execute_agent call
LiveAgents(k) ==
    (IF Contains(active_agents, k) THEN {Lookup(active_agents, k)} ELSE {})
    \cup {inflight[i].agent : i \in {j \in DOMAIN inflight : inflight[j].session_id = k}}

\* C21: at any time at most one agent instance is live for a session id, live
\* meaning registered in the table or driving an in-flight execute_agent call.
C21_OneLiveAgent ==
    \A k \in SessionKeys : Cardinality(LiveAgents(k)) <= 1

\* the chat messages a step hands to the socket or to fetch
Outbound ==
    (IF Len(wsSent') > Len(wsSent) THEN {wsSent'[Len(wsSent')]} ELSE {})
    \cup (IF Len(httpSent') > Len(httpSent) THEN {httpSent'[Len(httpSent')]} ELSE {})

\* the thread id a message carries; a message without the key carries none
Carried(m) == IF "thread_id" \in DOMAIN m THEN m.thread_id ELSE 0

\* C22: every outbound chat message, over the socket or over HTTP, carries the
\* thread id most recently received in a socket message or an HTTP reply, and
\* null before any was received; reconnects do not change the stored thread id.
C22_CarriesThread ==
    [][/\ \A m \in Outbound : Carried(m) = received
       /\ socket' # socket => threadId' = threadId]_vars

\* C23: isConnected is true exactly when the current socket is open, also
\* after the close event of a replaced socket, and a reconnect timer calls
\* initWebSocket only when the current socket is not open.
C23_ConnectedIffOpen ==
    /\ [](variant = AgentClientJs => (isConnected <=> socket = "open"))
    /\ [][(timers # <<>> /\ timers' = Tail(timers) /\ socket = "open")
             => socket' = "open"]_vars

\* C24: at most one thinking indicator and one thinking-state timer exist at
\* any time, and once a response or an error has been handled none remains.
C24_OneIndicator ==
    /\ [](thinking.indicators <= 1 /\ thinking.intervals <= 1)
    /\ [][(inbound' # inbound /\ inbound'.handler \in {"onMessage", "onError"})
             => (thinking'.indicators = 0 /\ thinking'.intervals = 0)]_vars

\* C25: once every preview request has completed, with no error shown, the
\* preview displayed is the one computed for the latest code: the response to
\* an older request does not overwrite the result of a newer one.
C25_LatestPreviewShown ==
    (previewRequests = <<>> /\ ~previewError /\ effect_requests(component, code))
        => preview = [code |-> code]

\* the questions whose recorded answer equals their correctAnswer
Correct(given, qs) ==
    {i \in DOMAIN given : given[i] = qs[i].correctAnswer}

\* C26: while the results are not shown the number of recorded answers equals
\* the index of the current question; Next with no option selected changes
\* nothing; answering the last question shows the results and calls
\* onComplete exactly once, with the number of correctly answered questions.
C26_QuizProgress ==
    /\ [](~showResults => Len(answers) = currentQuestion)
    /\ [][/\ (~showResults /\ selectedAnswer = NoAnswer) =>
                UNCHANGED <<answers, currentQuestion, showResults, showExplanation,
                            completed>>
          /\ (~showResults /\ showResults') =>
                /\ currentQuestion = Len(questions) - 1
                /\ Len(answers') = Len(questions)
                /\ completed' = Append(completed,
                                       Cardinality(Correct(answers', questions)))
          /\ completed' # completed => (~showResults /\ showResults')]_vars

\* a quiz of two questions was finished with one right and one wrong answer
C26_Witness ==
    /\ showResults
    /\ Len(questions) = 2
    /\ completed # <<>>
    /\ completed[Len(completed)] = 1
    /\ Cardinality(Correct(answers, questions)) = 1

\* the explanation box is rendered, line 101
ExplanationShown ==
    /\ ~showResults
    /\ showExplanation
    /\ questions[currentQuestion + 1].explanation

\* C27: Retry returns the quiz to its initial state: first question, no
\* answer recorded or selected, results hidden, no explanation shown.
C27_RetryResets ==
    [][(showResults /\ ~showResults') =>
          /\ currentQuestion' = 0
          /\ answers' = <<>>
          /\ selectedAnswer' = NoAnswer
          /\ ~ExplanationShown']_vars

\* neither pause() nor the unmount has happened
Undisturbed == mounted /\ control = "none"

\* C28: with no pause call and no unmount the frame loop of
\* useSmoothAnimation keeps running across the re-renders its progress
\* updates cause: isPaused() stays false, every animation frame invokes the
\* callback, and progress reaches its final value, when onComplete is invoked.
C28_LoopKeepsRunning ==
    /\ []((hook = UseSmoothAnimation /\ Undisturbed) => isActive)
    /\ [][(hook = UseSmoothAnimation /\ Undisturbed /\ previousTimeRef
            /\ tick' # tick) => called']_vars
    /\ <>(hook = UseSmoothAnimation =>
             (~Undisturbed \/ (progress = MaxFrames /\ finished)))

\* C29: after pause() followed by resume(), until the next pause or unmount,
\* isPaused() is false and every animation frame invokes the callback.
C29_ResumeRestartsLoop ==
    /\ []((mounted /\ control = "resumed") => isActive)
    /\ [][(mounted /\ control = "resumed" /\ tick' # tick) => called']_vars

\* the shortcuts whose key (compared without case) and modifier flags are
\* those of the event
MatchingShortcuts(event) ==
    {i \in DOMAIN shortcuts :
        /\ toLowerCase(shortcuts[i].key) = toLowerCase(event.key)
        /\ shortcuts[i].ctrlKey = (event.ctrlKey \/ event.metaKey)
        /\ shortcuts[i].shiftKey = event.shiftKey
        /\ shortcuts[i].altKey = event.altKey}

\* C30: a keydown event runs the action of the first registered shortcut that
\* matches it and no other action, also for a shortcut on Ctrl/Cmd+K.
C30_FirstMatchRuns ==
    keyEvent # NoEvent =>
        /\ Len(ran) <= 1
        /\ MatchingShortcuts(keyEvent) = {} => ran = <<>>
        /\ MatchingShortcuts(keyEvent) # {} =>
              ran = <<CHOOSE i \in MatchingShortcuts(keyEvent) :
                         \A j \in MatchingShortcuts(keyEvent) : i <= j>>

====
